---- MODULE Spec2Model ----
(***************************************************************************)
(* py_attio.client: the pagination helpers Client.paginate_records and     *)
(* Client.paginate_entries, the query operations and the transport they    *)
(* call.  Each paginate_* call is a Python generator: its body runs only   *)
(* while the consumer is inside next(), from one yield to the next.        *)
(***************************************************************************)
EXTENDS Integers, Sequences, FiniteSets, TLC

\* ------------------------------------------------------------------ bounds
MaxItems == 3          \* most items a queried resource holds
MaxPageSize == 2       \* largest page_size argument
MaxPayloadLimit == 2   \* largest 'limit' a caller payload carries
MaxPayloadOffset == 1  \* largest 'offset' a caller payload carries
\* No run of the code over MaxItems items needs this many query requests;
\* the cap only keeps a run that never ends finite.
MaxRequests == MaxItems + 2

\* The two pagination calls of a run, named after the generator functions.
Calls == {"paginate_records", "paginate_entries"}

\* ------------------------------------------------------- Python dict steps
\* An empty dict, {}.
EmptyDict == [k \in {} |-> 0]

\* d[k] = v
setitem(d, k, v) == [x \in DOMAIN d \cup {k} |-> IF x = k THEN v ELSE d[x]]

\* d.setdefault(k, v): writes only when k is missing.
setdefault(d, k, v) == IF k \in DOMAIN d THEN d ELSE setitem(d, k, v)

\* d.get(k, v)
get(d, k, v) == IF k \in DOMAIN d THEN d[k] ELSE v

\* ---------------------------------------------------------------- server
\* A stable result set of n items: the item at 0-based position i is i + 1.
\* The page a consistent server answers {offset, limit} with.
Min(a, b) == IF a < b THEN a ELSE b
Max(a, b) == IF a > b THEN a ELSE b
ServerPage(n, off, lim) == [i \in 1..Min(lim, Max(n - off, 0)) |-> off + i]

\* Statuses of failed responses the server may answer with.
FailStatuses == {404, 429}

\* An HTTP response: its status, what kind of body it has ("object": a JSON
\* object, "array": JSON that is no object, "invalid": not JSON), the raw body
\* text, and in `json` the fields of the parsed object (for the other kinds a
\* stand-in that no step reads).
Response(s, kind, fields) == [status |-> s, body |-> kind, text |-> "raw", json |-> fields]

\* What the server may answer to the query q over n items: the page, a 2xx
\* body without a data field, or a failed response.
ServerResponses(n, q) ==
    {Response(200, "object", [data |-> ServerPage(n, q["offset"], q["limit"])])}
    \cup {Response(200, "object", [other |-> 0])}
    \cup {Response(s, "object", [message |-> "msg"]) : s \in FailStatuses}

\* ------------------------------------------------------------- transport
\* An exception: its class, the literal text its message starts with, the
\* status code and the error message formatted into it.
Exc(type, label, status, message) ==
    [type |-> type, label |-> label, status |-> status, message |-> message]

\* No exception.
NoError == Exc("None", "", 0, "")

\* response.json(): raises when the body is not JSON.
json(response) ==
    IF response.body = "invalid"
    THEN [raised |-> TRUE, error |-> "JSONDecodeError"]
    ELSE [raised |-> FALSE, value |-> response.json]

\* The try block of _handle_error: error_data = response.json();
\* error_message = error_data.get('message', response.text).  A parsed body
\* that is no dict has no .get.
TryMessage(response) ==
    LET error_data == json(response) IN
    IF error_data.raised THEN error_data
    ELSE IF response.body # "object" THEN [raised |-> TRUE, error |-> "AttributeError"]
    ELSE [raised |-> FALSE, value |-> get(error_data.value, "message", response.text)]

\* Only a JSON decoding error is caught: any other exception of the try
\* block leaves _handle_error.
ErrorMessageNarrowExcept(response) ==
    LET try == TryMessage(response) IN
    IF try.raised /\ try.error = "JSONDecodeError"
    THEN [raised |-> FALSE, value |-> response.text]
    ELSE try

\* try: ... except: error_message = response.text
ErrorMessage(response) ==
    LET try == TryMessage(response) IN
    IF try.raised THEN [raised |-> FALSE, value |-> response.text] ELSE try

\* The >= 500 test comes first and the 404 branch raises ValueError.
StatusErrorShuffled(status_code, error_message) ==
    IF status_code >= 500
    THEN Exc("RuntimeError", "Server Error", status_code, error_message)
    ELSE IF status_code = 404
    THEN Exc("ValueError", "Not Found", status_code, error_message)
    ELSE Exc("Exception", "Request failed", status_code, error_message)

\* The 403 branch carries the text of the 401 branch.
StatusErrorSameLabel(status_code, error_message) ==
    IF status_code = 400
    THEN Exc("ValueError", "Bad Request", status_code, error_message)
    ELSE IF status_code = 401 \/ status_code = 403
    THEN Exc("PermissionError", "Unauthorized", status_code, error_message)
    ELSE IF status_code = 404
    THEN Exc("FileNotFoundError", "Not Found", status_code, error_message)
    ELSE IF status_code = 409
    THEN Exc("ValueError", "Conflict", status_code, error_message)
    ELSE IF status_code = 422
    THEN Exc("ValueError", "Unprocessable Entity", status_code, error_message)
    ELSE IF status_code = 429
    THEN Exc("RuntimeError", "Rate Limited", status_code, error_message)
    ELSE IF status_code >= 500
    THEN Exc("RuntimeError", "Server Error", status_code, error_message)
    ELSE Exc("Exception", "Request failed", status_code, error_message)

\* The if/elif chain of _handle_error: the exception raised for a status code.
StatusError(status_code, error_message) ==
    IF status_code = 400
    THEN Exc("ValueError", "Bad Request", status_code, error_message)
    ELSE IF status_code = 401
    THEN Exc("PermissionError", "Unauthorized", status_code, error_message)
    ELSE IF status_code = 403
    THEN Exc("PermissionError", "Forbidden", status_code, error_message)
    ELSE IF status_code = 404
    THEN Exc("FileNotFoundError", "Not Found", status_code, error_message)
    ELSE IF status_code = 409
    THEN Exc("ValueError", "Conflict", status_code, error_message)
    ELSE IF status_code = 422
    THEN Exc("ValueError", "Unprocessable Entity", status_code, error_message)
    ELSE IF status_code = 429
    THEN Exc("RuntimeError", "Rate Limited", status_code, error_message)
    ELSE IF status_code >= 500
    THEN Exc("RuntimeError", "Server Error", status_code, error_message)
    ELSE Exc("Exception", "Request failed", status_code, error_message)

\* BaseClient._handle_error: derives the message, then raises by status code.
_handle_error(response) ==
    LET status_code == response.status
        error_message == ErrorMessage(response)
    IN
    IF error_message.raised
    THEN [raised |-> TRUE,
          error |-> Exc(error_message.error, "", status_code, response.text)]
    ELSE [raised |-> TRUE, error |-> StatusError(status_code, error_message.value)]

\* Only 2xx counts as a success.
okOnly2xx(response) == response.status >= 200 /\ response.status < 300

\* requests' Response.ok: raise_for_status() does not raise, which among the
\* HTTP status codes (100..599) is so for every status below 400.
ok(response) == response.status < 400

\* BaseClient._request: if the response is not ok the classifier is called
\* (and raises); otherwise, or should it return, response.json() is returned.
_request(response) ==
    LET handled == IF ~ok(response) THEN _handle_error(response)
                                    ELSE [raised |-> FALSE]
        parsed == json(response)
    IN
    IF handled.raised THEN handled
    ELSE IF parsed.raised
    THEN [raised |-> TRUE, error |-> Exc(parsed.error, "", response.status, response.text)]
    ELSE parsed

\* Client.list_records / Client.list_entries: one POST of the payload.
list_records(response) == _request(response)
list_entries(response) == _request(response)

VARIABLES
    nItems,     \* how many items each queried resource holds
    page_size,  \* page_size[c]: the page_size argument of call c
    arg,        \* arg[c]: "P" when c was handed the caller's mapping, "None" otherwise
    P0,         \* the caller's mapping as the caller wrote it
    heap,       \* heap["P"]: the caller's mapping now; heap[c]: the dict call c made
    given,      \* given[c]: the dict `payload` of call c as its body found it
    pc,         \* pc[c]: created | suspended | done | raised | closed
    offset,     \* offset[c]: the local variable offset
    records,    \* records[c]: the page being emitted (records / entries)
    idx,        \* idx[c]: how many items of records[c] have been yielded
    err,        \* err[c]: the exception that left the generator
    emitted,    \* emitted[c]: the items yielded so far, in order
    reqs,       \* reqs[c]: the payloads posted so far, in order
    resps       \* resps[c]: the responses received so far, in order

\* Direct uses of the transport: the last two calls of _request or
\* _handle_error, each with its response and its outcome.
VARIABLES
    tPrev,      \* the call before the last one
    tLast       \* the last call

\* The state of the pagination calls, and of the transport calls.
pvars == <<nItems, page_size, arg, P0, heap, given, pc, offset, records, idx, err,
           emitted, reqs, resps>>
tvars == <<tPrev, tLast>>

\* One batch_create_records call at a time (the function is synchronous), and
\* what the call before it did.
VARIABLES
    bRecords,   \* the argument `records`: the payloads, in order
    fate,       \* fate[k]: the server's response to the create call for bRecords[k]
    batch_size, \* the argument batch_size
    bpc,        \* idle | outer | inner | returned | raised
    bi,         \* the outer loop's i
    batch,      \* the slice records[i:i + batch_size]
    bj,         \* how many payloads of batch the inner loop has taken
    results,    \* the list results
    created,    \* the payloads posted by create_record so far, in order
    berr,       \* the exception that left the call
    prevCall    \* batch_size, created and results of the call before this one

bvars == <<bRecords, fate, batch_size, bpc, bi, batch, bj, results, created, berr,
           prevCall>>
xvars == <<tvars, bvars>>
vars == <<pvars, tvars, bvars>>

\* No call yet.
NoCall == [op |-> "none", response |-> Response(0, "invalid", [none |-> 0]),
           outcome |-> [raised |-> FALSE]]

\* No transport call is made directly.
TransportIdle == tPrev = NoCall /\ tLast = NoCall

\* No earlier batch call.
NoRun == [batch_size |-> 0, created |-> <<>>, results |-> <<>>]

\* The locals of a batch_create_records call that has not started.
BatchLocals ==
    /\ batch_size = 0
    /\ bpc = "idle"
    /\ bi = 0
    /\ batch = <<>>
    /\ bj = 0
    /\ results = <<>>
    /\ created = <<>>
    /\ berr = NoError
    /\ prevCall = NoRun

\* batch_create_records is not called.
BatchIdle == bRecords = <<>> /\ fate = <<>> /\ BatchLocals

\* The payloads a caller may write: a filter, and optionally limit and offset.
CallerPayloads ==
    {[k \in {"filter"} \cup ks |-> 7] : ks \in {{}}} \cup
    {setitem([filter |-> 7], "limit", l) : l \in 1..MaxPayloadLimit} \cup
    {setitem([filter |-> 7], "offset", o) : o \in 0..MaxPayloadOffset} \cup
    {setitem(setitem([filter |-> 7], "limit", l), "offset", o) :
        l \in 1..MaxPayloadLimit, o \in 0..MaxPayloadOffset}

\* The arguments of the two calls and the generators' fresh frames.
Frames ==
    /\ nItems \in 0..MaxItems
    /\ page_size \in [Calls -> 1..MaxPageSize]
    /\ arg \in [Calls -> {"P", "None"}]
    /\ P0 \in CallerPayloads
    /\ heap = [r \in Calls \cup {"P"} |-> IF r = "P" THEN P0 ELSE EmptyDict]
    /\ given = [c \in Calls |-> EmptyDict]
    /\ offset = [c \in Calls |-> 0]
    /\ records = [c \in Calls |-> <<>>]
    /\ idx = [c \in Calls |-> 0]
    /\ err = [c \in Calls |-> NoError]
    /\ emitted = [c \in Calls |-> <<>>]
    /\ reqs = [c \in Calls |-> <<>>]
    /\ resps = [c \in Calls |-> <<>>]
    /\ TransportIdle
    /\ BatchIdle

\* Both generators created, neither consumed yet.
Init == Frames /\ pc = [c \in Calls |-> "created"]

\* One generator alone: the other was dropped before its first next().
SoloInit ==
    /\ Frames
    /\ \E c \in Calls : pc = [d \in Calls |-> IF d = c THEN "created" ELSE "closed"]

\* The dict the name `payload` of call c is bound to.
PayloadRef(c) == IF arg[c] = "None" THEN c ELSE "P"

\* The offset is never advanced.
NextOffsetStuck(off, ps) == off

\* offset += page_size
NextOffset(off, ps) == off + ps

\* Only an empty page counts as the last one.
IsShortPageOnlyEmpty(page, ps) == Len(page) = 0

\* len(records) < page_size: the last-page test.
IsShortPage(page, ps) == Len(page) < ps

\* The limit is put into a new dict: payload = {'limit': page_size}
SetLimitFresh(payload, ps) == [limit |-> ps]

\* payload.setdefault('limit', page_size)
SetLimit(payload, ps) == setdefault(payload, "limit", ps)

\* offset = payload.get('offset', 0)
InitialOffset(payload) == get(payload, "offset", 0)

\* The for loop is left after its first item.
PageExhaustedEarly(c) == idx[c] >= 1

\* `for record in records:` has yielded every item of the page.
PageExhausted(c) == idx[c] = Len(records[c])

\* The exception is caught and another one raised in its place.
PropagateWrapped(e) == [e EXCEPT !.type = "Exception"]

\* No try/except surrounds the query call: its exception leaves the
\* generator as it is.
Propagate(e) == e

\* response['data'] is read without the `in` test: a body without data
\* raises KeyError.
PageOutcomeKeyError(result) ==
    IF result.raised THEN [kind |-> "raise", error |-> Propagate(result.error)]
    ELSE IF "data" \notin DOMAIN result.value
    THEN [kind |-> "raise", error |-> Exc("KeyError", "", 0, "data")]
    ELSE IF result.value.data = <<>> THEN [kind |-> "break", error |-> NoError]
    ELSE [kind |-> "yield", error |-> NoError]

\* What the loop body does with the outcome of the query call: the exception
\* propagates, a body without data or with an empty list breaks the loop, any
\* other page is yielded from.
PageOutcome(result) ==
    IF result.raised THEN [kind |-> "raise", error |-> Propagate(result.error)]
    ELSE IF "data" \notin DOMAIN result.value THEN [kind |-> "break", error |-> NoError]
    ELSE IF result.value.data = <<>> THEN [kind |-> "break", error |-> NoError]
    ELSE [kind |-> "yield", error |-> NoError]

\* One pass of `while True:` of call c up to its first yield, break or raise:
\* the offset is written into the dict p, the dict is posted, and the outcome
\* `result` of the query call for the server's `response` is handled.
LoopBody(c, p, off, response, result) ==
    LET sent == setitem(p, "offset", off)
        outcome == PageOutcome(result)
    IN
    /\ heap' = [heap EXCEPT ![PayloadRef(c)] = sent]
    /\ offset' = [offset EXCEPT ![c] = off]
    /\ reqs' = [reqs EXCEPT ![c] = Append(@, sent)]
    /\ resps' = [resps EXCEPT ![c] = Append(@, response)]
    /\ IF outcome.kind = "raise"
       THEN /\ pc' = [pc EXCEPT ![c] = "raised"]
            /\ err' = [err EXCEPT ![c] = outcome.error]
            /\ UNCHANGED <<records, idx, emitted>>
       ELSE IF outcome.kind = "break"
       THEN /\ pc' = [pc EXCEPT ![c] = "done"]
            /\ UNCHANGED <<records, idx, emitted, err>>
       ELSE /\ pc' = [pc EXCEPT ![c] = "suspended"]
            /\ records' = [records EXCEPT ![c] = result.value.data]
            /\ idx' = [idx EXCEPT ![c] = 1]
            /\ emitted' = [emitted EXCEPT ![c] = Append(@, result.value.data[1])]
            /\ UNCHANGED err

\* The query of call c: the server answers the payload the call posts.
Query(c, p, off) ==
    /\ Len(reqs[c]) < MaxRequests
    /\ \E response \in ServerResponses(nItems, setitem(p, "offset", off)) :
          LoopBody(c, p, off, response,
                   IF c = "paginate_records" THEN list_records(response)
                                             ELSE list_entries(response))

\* The first next() on the generator: the body runs from its top to the
\* first yield (or to its end).
Start(c) ==
    /\ pc[c] = "created"
    /\ LET payload == IF arg[c] = "None" THEN EmptyDict ELSE heap["P"]
           p == SetLimit(payload, page_size[c])
       IN /\ given' = [given EXCEPT ![c] = payload]
          /\ Query(c, p, InitialOffset(p))
    /\ UNCHANGED <<nItems, page_size, arg, P0>>
    /\ UNCHANGED xvars

\* A later next() while items of the current page are left: the for loop
\* yields the next one.
YieldNext(c) ==
    /\ pc[c] = "suspended"
    /\ ~PageExhausted(c)
    /\ idx' = [idx EXCEPT ![c] = @ + 1]
    /\ emitted' = [emitted EXCEPT ![c] = Append(@, records[c][idx[c] + 1])]
    /\ UNCHANGED <<nItems, page_size, arg, P0, heap, given, pc, offset, records, err,
                   reqs, resps>>
    /\ UNCHANGED xvars

\* A later next() after the last item of the page: a short page ends the
\* generator.
EndOnShortPage(c) ==
    /\ pc[c] = "suspended"
    /\ PageExhausted(c)
    /\ IsShortPage(records[c], page_size[c])
    /\ pc' = [pc EXCEPT ![c] = "done"]
    /\ UNCHANGED <<nItems, page_size, arg, P0, heap, given, offset, records, idx, err,
                   emitted, reqs, resps>>
    /\ UNCHANGED xvars

\* paginate_entries steps one position further than its page size.
AdvanceEntriesSkips(c) ==
    IF c = "paginate_entries" THEN offset[c] + page_size[c] + 1
    ELSE NextOffset(offset[c], page_size[c])

\* The offset of call c after a full page: `offset += page_size` in
\* paginate_records and in paginate_entries.
Advance(c) == NextOffset(offset[c], page_size[c])

\* A later next() after the last item of a full page: the offset advances
\* and the loop body runs again.
NextPage(c) ==
    /\ pc[c] = "suspended"
    /\ PageExhausted(c)
    /\ ~IsShortPage(records[c], page_size[c])
    /\ Query(c, heap[PayloadRef(c)], Advance(c))
    /\ UNCHANGED <<nItems, page_size, arg, P0, given>>
    /\ UNCHANGED xvars

\* next() on the generator of call c.
Resume(c) == Start(c) \/ YieldNext(c) \/ EndOnShortPage(c) \/ NextPage(c)

\* The consumer stops consuming (break): the generator is closed at its yield.
Stop(c) ==
    /\ pc[c] \in {"created", "suspended"}
    /\ pc' = [pc EXCEPT ![c] = "closed"]
    /\ UNCHANGED <<nItems, page_size, arg, P0, heap, given, offset, records, idx, err,
                   emitted, reqs, resps>>
    /\ UNCHANGED xvars

Next == \E c \in Calls : Resume(c) \/ Stop(c)

Spec == Init /\ [][Next]_vars

\* One call alone, with a consumer that keeps requesting items.
FairSpec == SoloInit /\ [][Next]_vars /\ \A c \in Calls : WF_vars(Resume(c))

\* ------------------------------------------------- transport, used directly
\* The status codes of the responses handed to the transport.
Statuses == {200, 201, 304, 400, 401, 403, 404, 409, 418, 422, 429, 500, 503}

\* The bodies: an object with a message field, an object without one, JSON
\* that is no object, and text that is no JSON.
Bodies ==
    {<<"object", [message |-> "msg"]>>, <<"object", [data |-> <<>>]>>,
     <<"array", [array |-> 0]>>, <<"invalid", [none |-> 0]>>}

Responses == {Response(s, b[1], b[2]) : s \in Statuses, b \in Bodies}

\* The pagination calls are not running.
PaginationIdle ==
    /\ nItems = 0
    /\ page_size = [c \in Calls |-> 1]
    /\ arg = [c \in Calls |-> "None"]
    /\ P0 = [filter |-> 7]
    /\ heap = [r \in Calls \cup {"P"} |-> IF r = "P" THEN P0 ELSE EmptyDict]
    /\ given = [c \in Calls |-> EmptyDict]
    /\ pc = [c \in Calls |-> "closed"]
    /\ offset = [c \in Calls |-> 0]
    /\ records = [c \in Calls |-> <<>>]
    /\ idx = [c \in Calls |-> 0]
    /\ err = [c \in Calls |-> NoError]
    /\ emitted = [c \in Calls |-> <<>>]
    /\ reqs = [c \in Calls |-> <<>>]
    /\ resps = [c \in Calls |-> <<>>]

TransportInit == PaginationIdle /\ TransportIdle /\ BatchIdle

\* self._request(method, path, ...) when the server answers `response`.
Request(response) ==
    /\ tPrev' = tLast
    /\ tLast' = [op |-> "_request", response |-> response,
                 outcome |-> _request(response)]
    /\ UNCHANGED <<pvars, bvars>>

\* self._handle_error(response)
Classify(response) ==
    /\ tPrev' = tLast
    /\ tLast' = [op |-> "_handle_error", response |-> response,
                 outcome |-> _handle_error(response)]
    /\ UNCHANGED <<pvars, bvars>>

TransportNext == \E response \in Responses : Request(response) \/ Classify(response)

TransportSpec == TransportInit /\ [][TransportNext]_vars

\* ------------------------------------------------- batch_create_records
MaxRecords == 3     \* longest payload collection
MaxBatchSize == 3   \* largest batch_size argument

\* The payloads a caller may put into the collection.
RecordPayloads == {1, 2}

\* What the server may answer to a create call for the payload p: the created
\* item, a validation failure, a rate limit, a server failure whose body is
\* no JSON, or a success whose body is no JSON.
CreateResponses(p) ==
    {Response(200, "object", [data |-> p]),
     Response(422, "object", [message |-> "msg"]),
     Response(429, "object", [other |-> 0]),
     Response(503, "invalid", [none |-> 0]),
     Response(200, "invalid", [none |-> 0])}

\* All lists of length n over the set S.
Lists(S, n) == [1..n -> S]

\* Client.create_record: one POST of the payload.
create_record(response) == _request(response)

\* str(e): the message the exception was built with.
Str(e) == [label |-> e.label, status |-> e.status, message |-> e.message]

\* Each batch leaves out its last payload.
SliceShort(list, i, n) == SubSeq(list, i + 1, Min(i + n, Len(list)) - 1)

\* records[i:i + batch_size]
Slice(list, i, n) == SubSeq(list, i + 1, Min(i + n, Len(list)))

\* Consecutive batches overlap by one payload.
NextStartOverlap(i, n) == IF n > 1 THEN i + n - 1 ELSE i + n

\* range(0, len(records), batch_size): the start after i.
NextStart(i, n) == i + n

\* Only ValueError is caught.
CatchesValueError(e) == e.type = "ValueError"

\* `except Exception as e`: every exception a create call raises is caught.
Catches(e) == e.type # "None"

\* results.insert(0, result)
OnSuccessInsert(list, result) == <<result>> \o list

\* results.append(result)
OnSuccess(list, result) == Append(list, result)

\* A failed payload is skipped.
OnErrorSkip(list, e, record_payload) == list

\* results.append({'error': str(e), 'payload': record_payload})
OnError(list, e, record_payload) ==
    Append(list, [error |-> Str(e), payload |-> record_payload])

\* A caller's collection, the server's answer to each create call, and no
\* call made yet.
BatchInit ==
    /\ PaginationIdle
    /\ TransportIdle
    /\ \E n \in 0..MaxRecords :
          /\ bRecords \in Lists(RecordPayloads, n)
          /\ fate \in Lists(UNION {CreateResponses(p) : p \in RecordPayloads}, n)
          /\ \A k \in 1..n : fate[k] \in CreateResponses(bRecords[k])
    /\ BatchLocals

\* batch_create_records(object_id, records, batch_size): results = [].
BatchCall(n) ==
    /\ bpc = "idle"
    /\ batch_size' = n
    /\ bpc' = "outer"
    /\ bi' = 0
    /\ batch' = <<>>
    /\ bj' = 0
    /\ results' = <<>>
    /\ created' = <<>>
    /\ UNCHANGED <<bRecords, fate, berr, prevCall>>
    /\ UNCHANGED <<pvars, tvars>>

\* `for i in range(0, len(records), batch_size)` takes its next i and slices
\* the batch.
TakeBatch ==
    /\ bpc = "outer"
    /\ bi < Len(bRecords)
    /\ batch' = Slice(bRecords, bi, batch_size)
    /\ bj' = 0
    /\ bpc' = "inner"
    /\ UNCHANGED <<bRecords, fate, batch_size, bi, results, created, berr, prevCall>>
    /\ UNCHANGED <<pvars, tvars>>

\* The range is exhausted: return results.
Return ==
    /\ bpc = "outer"
    /\ bi >= Len(bRecords)
    /\ bpc' = "returned"
    /\ UNCHANGED <<bRecords, fate, batch_size, bi, batch, bj, results, created, berr,
                   prevCall>>
    /\ UNCHANGED <<pvars, tvars>>

\* `for record_payload in batch` takes its next payload: the create call is
\* made, its result appended or its exception turned into an error entry.
CreateOne ==
    /\ bpc = "inner"
    /\ bj < Len(batch)
    /\ LET record_payload == batch[bj + 1]
           result == create_record(fate[bi + bj + 1])
       IN /\ created' = Append(created, record_payload)
          /\ bj' = bj + 1
          /\ IF ~result.raised
             THEN /\ results' = OnSuccess(results, result.value)
                  /\ UNCHANGED <<bpc, berr>>
             ELSE IF Catches(result.error)
             THEN /\ results' = OnError(results, result.error, record_payload)
                  /\ UNCHANGED <<bpc, berr>>
             ELSE /\ bpc' = "raised"
                  /\ berr' = result.error
                  /\ UNCHANGED results
    /\ UNCHANGED <<bRecords, fate, batch_size, bi, batch, prevCall>>
    /\ UNCHANGED <<pvars, tvars>>

\* The batch is exhausted: back to the outer loop.
EndBatch ==
    /\ bpc = "inner"
    /\ bj = Len(batch)
    /\ bi' = NextStart(bi, batch_size)
    /\ bpc' = "outer"
    /\ UNCHANGED <<bRecords, fate, batch_size, batch, bj, results, created, berr,
                   prevCall>>
    /\ UNCHANGED <<pvars, tvars>>

\* The caller keeps what the call returned and may call again.
CallAgain ==
    /\ bpc = "returned"
    /\ prevCall = NoRun
    /\ prevCall' = [batch_size |-> batch_size, created |-> created, results |-> results]
    /\ bpc' = "idle"
    /\ UNCHANGED <<bRecords, fate, batch_size, bi, batch, bj, results, created, berr>>
    /\ UNCHANGED <<pvars, tvars>>

BatchNext ==
    \/ \E n \in 1..MaxBatchSize : BatchCall(n)
    \/ TakeBatch
    \/ CreateOne
    \/ EndBatch
    \/ Return
    \/ CallAgain

BatchSpec == BatchInit /\ [][BatchNext]_vars

\* ------------------------------------------------------------ vocabulary
\* A call that will run no further.
Finished(c) == pc[c] \in {"done", "raised", "closed"}

\* Response r carries a data list.
IsPage(r) == r.status = 200 /\ "data" \in DOMAIN r.json

\* The server has answered every request of call c so far with the page asked for.
Stable(c) == \A k \in 1..Len(resps[c]) : IsPage(resps[c][k])

\* The items of the data lists of the first n responses to call c, in order.
RECURSIVE FetchedUpTo(_, _)
FetchedUpTo(c, n) ==
    IF n = 0 THEN <<>>
    ELSE FetchedUpTo(c, n - 1)
         \o (IF IsPage(resps[c][n]) THEN resps[c][n].json.data ELSE <<>>)

Fetched(c) == FetchedUpTo(c, Len(resps[c]))

\* The server's items from 0-based position off on, in server order.
ItemsFrom(off) == [i \in 1..Max(nItems - off, 0) |-> off + i]

\* Call c has ended normally after the server answered all its requests.
Consumed(c) == pc[c] = "done" /\ Stable(c)

\* The last response to call c.
LastResp(c) == resps[c][Len(resps[c])]

\* ---------------------------------------------------------------- claims

\* C1: pagination completeness.  A fully consumed call over a stable server
\* has yielded exactly the server's items (from the offset of its first
\* request on), in server order, each once, whatever the caller's payload.
C1_Completeness ==
    \A c \in Calls :
        Consumed(c) => emitted[c] = ItemsFrom(reqs[c][1]["offset"])

\* C2: pagination termination.  With a consumer that keeps requesting items,
\* every call runs to its end.
C2_Termination == \A c \in Calls : <>Finished(c)

C2_Witness ==
    \E c \in Calls : Consumed(c) /\ Len(reqs[c]) >= 3 /\ Len(emitted[c]) >= 2

\* C3: short-page termination.  A fetched page with fewer items than
\* page_size is the last response of its call: no request follows it, an
\* empty one ends the call at once, and when the call has ended everything
\* fetched has been emitted.
C3_ShortPageEnds ==
    \A c \in Calls : \A k \in 1..Len(resps[c]) :
        (IsPage(resps[c][k]) /\ Len(resps[c][k].json.data) < page_size[c]) =>
            /\ k = Len(reqs[c])
            /\ pc[c] \in {"suspended", "done", "closed"}
            /\ (Len(resps[c][k].json.data) = 0 => pc[c] = "done")
            /\ (pc[c] = "done" => emitted[c] = Fetched(c))
            /\ (pc[c] = "suspended" => records[c] = resps[c][k].json.data)

C3_Witness ==
    \E c \in Calls :
        /\ pc[c] = "done"
        /\ Len(reqs[c]) >= 2
        /\ IsPage(LastResp(c))
        /\ Len(LastResp(c).json.data) > 0
        /\ Len(LastResp(c).json.data) < page_size[c]

\* C4: empty-result termination.  A 2xx response with an empty data list or
\* without a data field is the last response of its call; the call has ended
\* without an error and has emitted the items of the earlier pages and
\* nothing else.
IsEmptyResult(r) ==
    r.status = 200 /\ ("data" \notin DOMAIN r.json \/ r.json.data = <<>>)

C4_EmptyResultEnds ==
    \A c \in Calls : \A k \in 1..Len(resps[c]) :
        IsEmptyResult(resps[c][k]) =>
            /\ k = Len(reqs[c])
            /\ pc[c] = "done"
            /\ err[c] = NoError
            /\ emitted[c] = FetchedUpTo(c, k - 1)

C4_Witness ==
    /\ Len(resps["paginate_records"]) >= 2
    /\ "data" \notin DOMAIN LastResp("paginate_records").json
    /\ Len(emitted["paginate_records"]) >= 1
    /\ Len(resps["paginate_entries"]) >= 2
    /\ IsPage(LastResp("paginate_entries"))
    /\ LastResp("paginate_entries").json.data = <<>>
    /\ Len(emitted["paginate_entries"]) >= 1

\* C5: every request of a call carries limit = page_size, also when the
\* caller's payload already held a limit.
C5_LimitIsPageSize ==
    \A c \in Calls : \A k \in 1..Len(reqs[c]) :
        reqs[c][k]["limit"] = page_size[c]

\* C6: offset progression.  The first request carries the payload's offset
\* (0 without one); each later request's offset is the previous request's
\* offset plus the limit sent in that previous request.
C6_OffsetProgression ==
    \A c \in Calls : \A k \in 1..Len(reqs[c]) :
        IF k = 1
        THEN reqs[c][k]["offset"] = get(given[c], "offset", 0)
        ELSE reqs[c][k]["offset"] = reqs[c][k - 1]["offset"] + reqs[c][k - 1]["limit"]

\* C7: fetch count.  A fully consumed call over a stable server that started
\* at offset 0 has issued exactly floor(N / page_size) + 1 requests.
C7_FetchCount ==
    \A c \in Calls :
        (Consumed(c) /\ reqs[c][1]["offset"] = 0) =>
            Len(reqs[c]) = (nItems \div page_size[c]) + 1

\* C8: failure propagation.  A failed response is the last response of its
\* call; the call has raised the query call's exception unmodified, and has
\* emitted every item of the pages before it and nothing else.
C8_FailurePropagates ==
    \A c \in Calls : \A k \in 1..Len(resps[c]) :
        resps[c][k].status >= 400 =>
            /\ k = Len(reqs[c])
            /\ pc[c] = "raised"
            /\ err[c] = _handle_error(resps[c][k]).error
            /\ emitted[c] = FetchedUpTo(c, k - 1)

C8_Witness ==
    \E c \in Calls :
        /\ pc[c] = "raised"
        /\ Len(resps[c]) >= 2
        /\ Len(emitted[c]) >= 2
        /\ err[c].type = "FileNotFoundError"

\* C9: pull-based ordering and cancellation.  A generator not yet asked for
\* an item has issued no request; a step issues at most one request, only
\* from a generator that is not closed and has emitted every item fetched
\* before, and the step emits the first item of the new page if it has one;
\* a closed generator issues no request.
C9_PullBased ==
    /\ [](\A c \in Calls : pc[c] = "created" => reqs[c] = <<>>)
    /\ [][\A c \in Calls :
            /\ reqs'[c] # reqs[c] =>
                  /\ pc[c] \in {"created", "suspended"}
                  /\ emitted[c] = Fetched(c)
                  /\ Len(reqs'[c]) = Len(reqs[c]) + 1
                  /\ Len(emitted'[c]) >= Len(emitted[c])
                  /\ Len(emitted'[c]) <= Len(emitted[c]) + 1
            /\ pc[c] = "closed" => (reqs'[c] = reqs[c] /\ pc'[c] = "closed")
       ]_vars

C9_Witness ==
    \E c \in Calls :
        /\ pc[c] = "closed"
        /\ Len(reqs[c]) = 2
        /\ Len(emitted[c]) = Len(FetchedUpTo(c, 1)) + 1
        /\ Len(Fetched(c)) > Len(emitted[c])

\* C10: cursor isolation.  The offsets and limits a call requests are those
\* it requests when it runs alone on the arguments the caller wrote: the k-th
\* request starts (k - 1) pages after the caller's offset (0 without one) and
\* carries the caller's limit (page_size without one).
Handed(c) == IF arg[c] = "None" THEN EmptyDict ELSE P0

C10_CursorIsolation ==
    \A c \in Calls : \A k \in 1..Len(reqs[c]) :
        /\ reqs[c][k]["offset"] = get(Handed(c), "offset", 0) + (k - 1) * page_size[c]
        /\ reqs[c][k]["limit"] = get(Handed(c), "limit", page_size[c])

\* ------------------------------------------------ claims: batch creation
\* The create call for the payload at position k raised.
CreateFailed(k) == fate[k].status >= 400 \/ fate[k].body = "invalid"

\* Entry e is what the claim expects at position k: the error entry with the
\* stringified message and the original payload when the create call raised,
\* the unmodified response otherwise.
ExpectedEntry(k, e) ==
    IF CreateFailed(k)
    THEN /\ DOMAIN e = {"error", "payload"}
         /\ e.payload = bRecords[k]
         /\ fate[k].status >= 400 =>
               /\ e.error.label # ""
               /\ e.error.status = fate[k].status
               /\ e.error.message =
                     (IF fate[k].body = "object" /\ "message" \in DOMAIN fate[k].json
                      THEN fate[k].json.message
                      ELSE fate[k].text)
    ELSE /\ DOMAIN e = DOMAIN fate[k].json
         /\ e = fate[k].json

\* C11: batch length invariant.  A returned call has produced exactly one
\* result per input payload, whatever create calls failed; an empty input
\* gives an empty result and no create call.
C11_BatchLength ==
    bpc = "returned" =>
        /\ Len(results) = Len(bRecords)
        /\ (bRecords = <<>> => created = <<>>)

C11_Witness ==
    /\ bpc = "returned"
    /\ Len(bRecords) = 3
    /\ CreateFailed(1) /\ ~CreateFailed(2) /\ CreateFailed(3)
    /\ batch_size = 2

\* C12: batch isolation and order.  At every moment the k-th result is the
\* entry of input position k: an error entry exactly when that create call
\* raised, the unmodified response otherwise; a returned call has one for
\* every position.
C12_BatchIsolation ==
    /\ Len(results) <= Len(bRecords)
    /\ \A k \in 1..Min(Len(results), Len(bRecords)) : ExpectedEntry(k, results[k])
    /\ bpc = "returned" => Len(results) = Len(bRecords)

C12_Witness ==
    /\ bpc = "returned"
    /\ Len(bRecords) = 3
    /\ ~CreateFailed(1) /\ CreateFailed(2) /\ ~CreateFailed(3)
    /\ bRecords[1] # bRecords[3]

\* C13: batch_create_records never raises: no exception leaves the call,
\* whatever the create calls raise.
C13_NeverRaises == bpc # "raised" /\ berr = NoError

C13_Witness ==
    /\ bpc = "returned"
    /\ \E k \in 1..Len(bRecords) : fate[k].status = 429
    /\ \E k \in 1..Len(bRecords) : fate[k].status = 422
    /\ \E k \in 1..Len(bRecords) : fate[k].status = 200 /\ fate[k].body = "invalid"

\* C14: batch call sequence.  The create calls made so far are the first
\* payloads of the input, in input order, one call each (nothing is retried
\* or repeated); every call's outcome is recorded before the next call; a
\* returned call has made exactly one call per payload.
C14_CallSequence ==
    /\ Len(created) <= Len(bRecords)
    /\ created = SubSeq(bRecords, 1, Min(Len(created), Len(bRecords)))
    /\ bpc # "raised" => Len(results) = Len(created)
    /\ bpc = "returned" => created = bRecords

C14_Witness ==
    /\ bpc = "returned"
    /\ Len(bRecords) = 3
    /\ batch_size = 2
    /\ CreateFailed(2)
    /\ bRecords[1] # bRecords[2]

\* C15: batch size has no behavioural effect.  Two calls on the same
\* collection with the same outcomes of the create calls make the same create
\* calls and return the same results, whatever their batch sizes.
C15_BatchSizeIrrelevant ==
    (bpc = "returned" /\ prevCall # NoRun) =>
        /\ created = prevCall.created
        /\ results = prevCall.results

C15_Witness ==
    /\ bpc = "returned"
    /\ prevCall # NoRun
    /\ prevCall.batch_size = 1
    /\ batch_size = 3
    /\ Len(bRecords) = 2
    /\ CreateFailed(1)

\* ------------------------------------------------- claims: error classifier
\* The band of the table a status code falls in.
Band(s) ==
    IF s = 400 THEN "invalid request"
    ELSE IF s = 401 THEN "unauthorized"
    ELSE IF s = 403 THEN "forbidden"
    ELSE IF s = 404 THEN "not found"
    ELSE IF s = 409 THEN "conflict"
    ELSE IF s = 422 THEN "unprocessable"
    ELSE IF s = 429 THEN "rate limited"
    ELSE IF s >= 500 THEN "server failure"
    ELSE "generic request failure"

\* The kind an exception's message names.
KindOf(e) ==
    IF e.label = "Bad Request" THEN "invalid request"
    ELSE IF e.label = "Unauthorized" THEN "unauthorized"
    ELSE IF e.label = "Forbidden" THEN "forbidden"
    ELSE IF e.label = "Not Found" THEN "not found"
    ELSE IF e.label = "Conflict" THEN "conflict"
    ELSE IF e.label = "Unprocessable Entity" THEN "unprocessable"
    ELSE IF e.label = "Rate Limited" THEN "rate limited"
    ELSE IF e.label = "Server Error" THEN "server failure"
    ELSE IF e.label = "Request failed" THEN "generic request failure"
    ELSE "none"

\* The transport calls the state remembers.
Remembered == {tPrev, tLast}

\* Call t went through the classifier: _handle_error itself, or _request on
\* a response that is not ok.
Classified(t) ==
    \/ t.op = "_handle_error"
    \/ t.op = "_request" /\ t.response.status >= 400

\* C16: error kind mapping.  The classifier raises the kind the table gives
\* for the status code (FileNotFoundError for 404), and two responses with
\* the same status code raise the same kind whatever their bodies.
C16_ErrorKindMapping ==
    /\ \A t \in Remembered : Classified(t) =>
          /\ t.outcome.raised
          /\ KindOf(t.outcome.error) = Band(t.response.status)
          /\ (t.response.status = 404 => t.outcome.error.type = "FileNotFoundError")
    /\ (Classified(tPrev) /\ Classified(tLast)
        /\ tPrev.response.status = tLast.response.status) =>
          /\ tPrev.outcome.error.type = tLast.outcome.error.type
          /\ tPrev.outcome.error.label = tLast.outcome.error.label

C16_Witness ==
    /\ Classified(tPrev) /\ Classified(tLast)
    /\ tPrev.response.status = 503 /\ tLast.response.status = 503
    /\ tPrev.response.body = "object" /\ tLast.response.body = "invalid"
    /\ tPrev.op = "_request" /\ tLast.op = "_handle_error"

\* C17 as claimed: one error kind per status band.  Two classified responses
\* of different bands raise exceptions of different classes.
C17_NineKinds ==
    (Classified(tPrev) /\ Classified(tLast)
     /\ Band(tPrev.response.status) # Band(tLast.response.status)) =>
        tPrev.outcome.error.type # tLast.outcome.error.type

\* C17 as amended.  The nine bands raise five exception classes: ValueError
\* (400, 409, 422), PermissionError (401, 403), FileNotFoundError (404),
\* RuntimeError (429, >= 500) and Exception (other); two classified responses
\* of different bands differ in the class or in the text the message starts
\* with, so class and message together tell the band.
ClassOfBand(b) ==
    IF b \in {"invalid request", "conflict", "unprocessable"} THEN "ValueError"
    ELSE IF b \in {"unauthorized", "forbidden"} THEN "PermissionError"
    ELSE IF b = "not found" THEN "FileNotFoundError"
    ELSE IF b \in {"rate limited", "server failure"} THEN "RuntimeError"
    ELSE "Exception"

C17_BandFromClassAndMessage ==
    /\ \A t \in Remembered : Classified(t) =>
          t.outcome.error.type = ClassOfBand(Band(t.response.status))
    /\ (Classified(tPrev) /\ Classified(tLast)
        /\ Band(tPrev.response.status) # Band(tLast.response.status)) =>
          \/ tPrev.outcome.error.type # tLast.outcome.error.type
          \/ tPrev.outcome.error.label # tLast.outcome.error.label

C17_Witness ==
    /\ Classified(tPrev) /\ Classified(tLast)
    /\ tPrev.response.status = 401 /\ tLast.response.status = 403
    /\ tPrev.outcome.error.type = tLast.outcome.error.type

\* C18 as claimed: transport outcome.  _request returns the parsed body when
\* the status is 2xx (and the body is JSON) and raises the classifier's error
\* for every other status; the classifier always raises.
Is2xx(s) == s >= 200 /\ s < 300

C18_OnlyTwoXXReturns ==
    \A t \in Remembered :
        /\ (t.op = "_request" /\ Is2xx(t.response.status) /\ t.response.body # "invalid") =>
              (~t.outcome.raised /\ t.outcome.value = t.response.json)
        /\ (t.op = "_request" /\ ~Is2xx(t.response.status)) =>
              (t.outcome.raised /\ KindOf(t.outcome.error) = Band(t.response.status))
        /\ t.op = "_handle_error" => t.outcome.raised

\* C18 as amended.  _request returns the parsed body for every status below
\* 400 (response.ok) whose body is JSON and raises the JSON decoding error
\* when such a body is not JSON; for every status from 400 on it raises the
\* classifier's error; the classifier raises for every status it is given.
C18_TransportOutcome ==
    \A t \in Remembered :
        /\ (t.op = "_request" /\ t.response.status < 400 /\ t.response.body # "invalid") =>
              (~t.outcome.raised /\ t.outcome.value = t.response.json)
        /\ (t.op = "_request" /\ t.response.status < 400 /\ t.response.body = "invalid") =>
              (t.outcome.raised /\ t.outcome.error.type = "JSONDecodeError")
        /\ (t.op = "_request" /\ t.response.status >= 400) =>
              (t.outcome.raised /\ KindOf(t.outcome.error) = Band(t.response.status))
        /\ t.op = "_handle_error" =>
              (t.outcome.raised /\ KindOf(t.outcome.error) = Band(t.response.status))

C18_Witness ==
    /\ tPrev.op = "_request" /\ tPrev.response.status = 304
    /\ tPrev.response.body = "object" /\ ~tPrev.outcome.raised
    /\ tLast.op = "_handle_error" /\ tLast.response.status = 200
    /\ tLast.outcome.raised

\* C19: error message derivation.  The classifier's exception carries the
\* body's message field when the body is a JSON object that has one and the
\* raw body text otherwise, and it is always one of the classifier's own
\* exceptions: deriving the message raises nothing else.
C19_MessageDerivation ==
    \A t \in Remembered : Classified(t) =>
        /\ t.outcome.raised
        /\ KindOf(t.outcome.error) # "none"
        /\ t.outcome.error.message =
              (IF t.response.body = "object" /\ "message" \in DOMAIN t.response.json
               THEN t.response.json.message
               ELSE t.response.text)

C19_Witness ==
    /\ Classified(tPrev) /\ Classified(tLast)
    /\ tPrev.response.body = "array" /\ tPrev.outcome.error.message = "raw"
    /\ tLast.response.body = "object" /\ tLast.outcome.error.message = "msg"

\* ------------------------------------------------ claims: payload frame
\* The fields of dict d other than the pagination fields.
Others(d) == [k \in DOMAIN d \ {"limit", "offset"} |-> d[k]]

\* C20: payload frame.  The caller's mapping keeps every field other than
\* limit and offset as the caller wrote it; every request of a call carries
\* exactly those other fields of the dict it was handed; when no call was
\* handed the caller's mapping, the mapping is unchanged.
C20_PayloadFrame ==
    /\ DOMAIN Others(heap["P"]) = DOMAIN Others(P0)
    /\ Others(heap["P"]) = Others(P0)
    /\ \A c \in Calls : \A k \in 1..Len(reqs[c]) :
          /\ Others(reqs[c][k]) = Others(Handed(c))
          /\ DOMAIN reqs[c][k] = DOMAIN Handed(c) \cup {"limit", "offset"}
    /\ (\A c \in Calls : arg[c] = "None") => heap["P"] = P0

C20_Witness ==
    /\ arg["paginate_records"] = "P"
    /\ pc["paginate_records"] = "closed"
    /\ Len(reqs["paginate_records"]) = 2
    /\ "filter" \in DOMAIN P0
    /\ "limit" \notin DOMAIN P0
    /\ heap["P"] # P0
    /\ arg["paginate_entries"] = "None"
    /\ pc["paginate_entries"] = "done"
    /\ Len(reqs["paginate_entries"]) >= 1

\* ------------------------------------------------ claims: one engine
\* Sequences s and t agree on their first n elements.
AgreeUpTo(s, t, n) == \A j \in 1..n : s[j] = t[j]

\* One of the sequences s and t is the beginning of the other.
Comparable(s, t) == AgreeUpTo(s, t, Min(Len(s), Len(t)))

\* The two calls were started with the same payload contents and the same
\* page_size.
SameArguments ==
    /\ \A c \in Calls : pc[c] # "created"
    /\ page_size["paginate_records"] = page_size["paginate_entries"]
    /\ given["paginate_records"] = given["paginate_entries"]

====
